---- MODULE Spec2Model ----
(***************************************************************************)
(* Debug Duck: the Raspberry Pi "sentry" and the laptop client.            *)
(*                                                                         *)
(* src/pi-sentry/fer_service.py.  FERService owns frustration_counter;     *)
(* start() creates a daemon thread running _monitor_loop, which captures   *)
(* frames, classifies every FRAME_SKIP-th frame and counts frustration;    *)
(* stop() clears `running` and joins the thread for at most 5 seconds.     *)
(* Each monitor thread is a small program counter machine.  Steps that     *)
(* touch only locals of the thread are merged into the neighbouring step;  *)
(* every read and every write of the shared fields (running,               *)
(* frustration_counter) is a step of its own, so that two live monitor     *)
(* threads interleave the way Python threads can.                          *)
(*                                                                         *)
(* src/pi-sentry/button_listener.py.  ButtonListener debounces rising      *)
(* edges against time.time() and runs its callback, or asks the laptop     *)
(* for help when it has none.                                              *)
(*                                                                         *)
(* src/pi-sentry/sentry_server.py with llm_router.py, tts_service.py and   *)
(* duck_gui.py.  The Flask server of the Pi: /trigger-empathy and /speak,  *)
(* each request served by a handler thread; the handlers share the duck's  *)
(* face.  /emotion, which sets the face by hand, has a specification of    *)
(* its own.  start() and stop() of FERService, ButtonListener and DuckGUI  *)
(* record what they return in `called`.                                    *)
(*                                                                         *)
(* src/laptop-client/client_server.py.  The Flask server of the laptop:    *)
(* /get-help.                                                              *)
(*                                                                         *)
(* Each component has a specification of its own, in which the other       *)
(* components stay as they were built.                                     *)
(***************************************************************************)
EXTENDS Integers, Sequences, FiniteSets, TLC

\* ------------------------------------------------------------------ bounds
\* Largest FER_FRUSTRATION_THRESHOLD value tried (the variable is read from the
\* environment; 0 stands for every non-positive setting).
MaxThreshold == 3
\* Observations recorded in the history of one monitoring session.
MaxObs == 6
\* Thread objects start() may create over one run of the model.
MaxThreads == 2
\* Largest value the model lets frustration_counter take.  One monitor thread
\* never exceeds the threshold; two racing threads can push the counter up
\* without limit (a stale `+= 1` written after the other thread's reset).
MaxCounter == 5
\* Last reading of the clock (time.time(), in ticks) the model lets a button press see.
MaxTime == 7
\* Requests the Pi's Flask server handles at a time (app.run serves each request
\* in a thread of its own).
MaxHandlers == 2

\* ------------------------------------------------------- program constants
\* FER_FRAME_SKIP default.
FRAME_SKIP == 2
\* FER_CONFIDENCE_THRESHOLD default (0.5), in percent.
CONFIDENCE_THRESHOLD == 50

\* BUTTON_DEBOUNCE_TIME default (1.0 second), in clock ticks of half a second.
DEBOUNCE_TIME == 2

EMOTIONS == <<"angry", "disgust", "fear", "happy", "neutral", "sad", "surprise">>

FRUSTRATION_EMOTIONS == {"angry", "disgust", "sad"}

\* Python's None.
None == "None"

Threads == 1..MaxThreads

VARIABLES
    FRUSTRATION_THRESHOLD,  \* module constant, fixed when the module is imported
    empathy_callback,       \* TRUE: a callback was given to __init__; FALSE: None
    running,                \* self.running
    frustration_counter,    \* self.frustration_counter
    thread,                 \* self.thread: 0 for None, else the latest Thread object
    picam2,                 \* self.picam2: "None", "created" (not started), "started", "stopped"
    caller,                 \* where the thread calling start()/stop() is: "idle", "join"
    pc,                     \* per Thread object: position in _monitor_loop
    frame_count,            \* per thread: local frame_count, kept modulo FRAME_SKIP (all that is read of it)
    first_frame,            \* per thread, history: no frame of this thread has been processed yet
    emotion,                \* per thread: local emotion of the frame being processed
    loaded,                 \* per thread: value read from frustration_counter, not yet written back
    obs,                    \* per thread, history: the observation in progress
    last_outcome,           \* history: how the latest comfort action ended
    log                     \* history, kept by SpecSession alone: the observations processed,
                            \* in order of completion

\* history: the latest call of start() or stop() on FERService, ButtonListener or
\* DuckGUI, and what it returned
VARIABLES
    called

\* button_listener.py (ButtonListener) and the clock it reads
VARIABLES
    button_callback,        \* self.button_callback: None or the name of the callback given
    button_running,         \* self.running
    last_press_time,        \* self.last_press_time
    now,                    \* what time.time() returns, in ticks since the epoch
    button_thread,          \* self.thread: 0 for None, else the latest Thread object
    gpio,                   \* the line request of _setup_gpio: "requested", "released"
    bpc,                    \* position of the button thread: "none", "wait", "act", "done"
    press                   \* history: the latest rising edge handled and what came of it

\* duck_gui.py (DuckGUI), the object main.py hands to sentry_server.set_gui
VARIABLES
    duck_gui,               \* TRUE: the DuckGUI object exists; FALSE: None
    current_emotion,        \* DuckGUI.current_emotion
    gui_running,            \* DuckGUI.running
    gui_thread,             \* DuckGUI.thread: 0 for None, else the latest Thread object
    gpc                     \* position of the GUI thread in _run_loop: "none", "while", "draw", "done"

\* sentry_server.py, the Flask server of the Pi
VARIABLES
    llm_router,             \* TRUE: LLMRouter() was built; FALSE: None (it raised, no API key)
    handlers                \* per handler thread: the request it serves and how far it is

\* laptop-client/client_server.py, the Flask server of the laptop
VARIABLES
    SPEAK_ON_LAPTOP,        \* module constant, from the environment (default "true")
    laptop_llm_router,      \* its llm_router: TRUE built, FALSE None
    tts_engine,             \* TRUE: pyttsx3.init() worked; FALSE: None
    helps                   \* per handler thread: the /get-help request it serves

vars == <<FRUSTRATION_THRESHOLD, empathy_callback, running, frustration_counter,
          thread, picam2, caller, pc, frame_count, first_frame, emotion, loaded, obs,
          last_outcome, log, called,
          button_callback, button_running, last_press_time, now, button_thread, gpio, bpc, press,
          duck_gui, current_emotion, gui_running, gui_thread, gpc,
          llm_router, handlers,
          SPEAK_ON_LAPTOP, laptop_llm_router, tts_engine, helps>>

config == <<FRUSTRATION_THRESHOLD, empathy_callback>>
service == <<running, thread, picam2, caller>>
locals == <<frame_count, emotion, loaded>>

\* The variables of FERService, of ButtonListener and of DuckGUI.
fer == <<config, service, locals, frustration_counter, pc, first_frame, obs, last_outcome, log>>
button == <<button_callback, button_running, last_press_time, now, button_thread, gpio, bpc, press>>

\* The GUI thread and the flag it runs on.
gui_loop == <<gui_running, gui_thread, gpc>>
gui == <<duck_gui, current_emotion, gui_loop>>

sentry == <<llm_router, handlers>>

laptop == <<SPEAK_ON_LAPTOP, laptop_llm_router, tts_engine, helps>>

\* What no step of FERService touches.
outside_fer == <<button, gui, sentry, laptop>>

\* What no step of FERService._monitor_loop touches.
outside_loop == <<outside_fer, called>>

\* ----------------------------------------------------------------- helpers
Max(a, b) == IF a >= b THEN a ELSE b

\* The class of a label as the specification's observe() distinguishes them.
Kind(label) ==
    IF label = None THEN "absent"
    ELSE IF label \in {"angry", "disgust", "sad"} THEN "frust"
    ELSE "calm"

NoObs == [kind |-> "none", before |-> 0, fired |-> FALSE]

\* The value of `called` before any call.  `on` is the service ("fer", "button",
\* "gui"), `op` is "start" or "stop", `camera` what _init_camera returned when
\* start() called it ("True", "False"), `returned` what the call returned
\* ("True", "False", "None"), "pending" while stop() waits in join().
NoCall == [on |-> "none", op |-> "none", camera |-> None, returned |-> None]

\* Thread objects whose _monitor_loop has not ended.
Alive == {t \in Threads : pc[t] \notin {"none", "done"}}

\* Threads between `emotion = self.detect_emotion(...)` and `frame_count += 1`.
Observing == {t \in Threads : pc[t] \notin {"none", "done", "while", "capture"}}

\* What detect_emotion gives when `EMOTIONS[emotion_index]` raises.
IndexError == "IndexError"

\* The classifier answered with a confident class that EMOTIONS does not name
\* (the TFLite model at EMOTION_MODEL_PATH has more outputs than EMOTIONS has
\* entries): a label that is present and not recognized.
Unrecognized(faces, confidence, emotion_index) ==
    /\ faces > 0
    /\ confidence >= CONFIDENCE_THRESHOLD
    /\ emotion_index \notin 1..Len(EMOTIONS)

\* A faulty DetectEmotion: a class without a name is reported as "neutral".
DetectEmotionLenient(faces, confidence, emotion_index) ==
    IF faces = 0 THEN None
    ELSE IF confidence >= CONFIDENCE_THRESHOLD THEN
        IF emotion_index \in DOMAIN EMOTIONS THEN EMOTIONS[emotion_index] ELSE "neutral"
    ELSE None

\* detect_emotion: no face, or a face whose dominant emotion has confidence
\* (in percent) below CONFIDENCE_THRESHOLD, gives None; otherwise the name of
\* the dominant class, and IndexError when EMOTIONS has no such entry
\* (emotion_index is np.argmax(predictions) + 1).
DetectEmotion(faces, confidence, emotion_index) ==
    IF faces = 0 THEN None
    ELSE IF confidence >= CONFIDENCE_THRESHOLD THEN
        IF emotion_index \in DOMAIN EMOTIONS THEN EMOTIONS[emotion_index] ELSE IndexError
    ELSE None

\* ------------------------------------------------------------------- Init
\* After FERService(empathy_callback): not running, counter 0, no thread, no camera.
FerInit ==
    /\ FRUSTRATION_THRESHOLD \in 0..MaxThreshold
    /\ empathy_callback \in BOOLEAN
    /\ running = FALSE
    /\ frustration_counter = 0
    /\ thread = 0
    /\ picam2 = "None"
    /\ caller = "idle"
    /\ pc = [t \in Threads |-> "none"]
    /\ frame_count = [t \in Threads |-> 0]
    /\ first_frame = [t \in Threads |-> TRUE]
    /\ emotion = [t \in Threads |-> None]
    /\ loaded = [t \in Threads |-> 0]
    /\ obs = [t \in Threads |-> NoObs]
    /\ last_outcome = "none"
    /\ log = <<>>
    /\ called = NoCall

\* FERService as main.py builds it (a callback is given), the threshold at the
\* largest value tried: its state in the specifications of the other components,
\* which take no step of it.
FerIdle ==
    /\ FerInit
    /\ FRUSTRATION_THRESHOLD = MaxThreshold
    /\ empathy_callback = TRUE

\* The value of `press` before any rising edge: `pressed` tells a handled edge,
\* `at` the clock it read, `accepted` whether it passed the debounce test,
\* `first` that no press was accepted before it and `since` when the latest
\* one before it was, `before` the value of last_press_time it found,
\* `acted` which branch ran ("none", "callback", "help") and `help` how the
\* request to the laptop ended.
NoPress == [pressed |-> FALSE, at |-> 0, accepted |-> FALSE, first |-> TRUE, since |-> 0,
            before |-> 0, acted |-> "none", help |-> "none"]

\* After ButtonListener(button_callback): not running, last_press_time 0.  The
\* clock reads seconds since 1970, so it has passed DEBOUNCE_TIME.
ButtonInit ==
    /\ button_callback \in {None, "_button_callback"}
    /\ button_running = FALSE
    /\ last_press_time = 0
    /\ now \in DEBOUNCE_TIME..MaxTime
    /\ button_thread = 0
    /\ gpio = "requested"
    /\ bpc = "none"
    /\ press = NoPress

\* ButtonListener as main.py builds it, taking no step.
ButtonIdle ==
    /\ ButtonInit
    /\ button_callback = "_button_callback"
    /\ now = DEBOUNCE_TIME

\* After DuckGUI(): current_emotion "neutral", not running, no thread; or no
\* GUI (main.py goes on without one when DuckGUI() raises).
GuiInit ==
    /\ duck_gui \in BOOLEAN
    /\ current_emotion = "neutral"
    /\ gui_running = FALSE
    /\ gui_thread = 0
    /\ gpc = "none"

GuiIdle ==
    /\ GuiInit
    /\ duck_gui = TRUE

Handlers == 1..MaxHandlers

\* A handler thread without a request.  `route` is the endpoint, `hpc` the
\* position in its function ("idle", "begin", "speak", "revert", "done"), `json`
\* whether the request carries a JSON object, `text` the local `text` or
\* `phrase`, `success` the local of that name, `status` the status code
\* answered (0: none yet).  History: `did` lists what the handler has done to the
\* duck's face and the calls of tts_service.speak it has made, `spoken` tells
\* that speak played the text.
IdleHandler == [route |-> "none", hpc |-> "idle", json |-> FALSE, text |-> None,
                success |-> FALSE, status |-> 0, did |-> <<>>, spoken |-> FALSE]

\* After sentry_server is imported: the router built or None, no request yet.
SentryInit ==
    /\ llm_router \in BOOLEAN
    /\ handlers = [h \in Handlers |-> IdleHandler]

SentryIdle ==
    /\ SentryInit
    /\ llm_router = TRUE

\* A handler thread of the laptop without a request.  `hpc` is the position in
\* get_help ("idle", "ocr", "llm", "speak", "done"); code_text, answer and
\* speak_status are its locals, `status` the status code answered (0: none
\* yet).  History: `llm_ok` tells that OpenRouter gave the answer, `sent` lists
\* the texts posted to the Pi's /speak, `local` those the laptop's engine said,
\* `steps` the steps of get_help that have run ("ocr", "llm", "speak").
IdleHelp == [hpc |-> "idle", code_text |-> None, answer |-> None, speak_status |-> None,
             status |-> 0, llm_ok |-> FALSE, sent |-> <<>>, local |-> <<>>, steps |-> <<>>]

\* After client_server is imported.
LaptopInit ==
    /\ SPEAK_ON_LAPTOP \in BOOLEAN
    /\ laptop_llm_router \in BOOLEAN
    /\ tts_engine \in BOOLEAN
    /\ helps = [h \in Handlers |-> IdleHelp]

\* The laptop with its defaults, taking no step.
LaptopIdle ==
    /\ LaptopInit
    /\ SPEAK_ON_LAPTOP = TRUE
    /\ laptop_llm_router = TRUE
    /\ tts_engine = TRUE

Init == FerInit /\ ButtonIdle /\ GuiIdle /\ SentryIdle /\ LaptopIdle

\* ----------------------------------------------------------- _monitor_loop
\* `while self.running:`; leaving the loop runs the finally clause and ends the thread.
LoopTest(t) ==
    /\ pc[t] = "while"
    /\ pc' = [pc EXCEPT ![t] = IF running THEN "capture" ELSE "done"]
    /\ UNCHANGED <<outside_loop, config, last_outcome, service, frustration_counter, locals, first_frame, obs, log>>

\* capture_array(), cvtColor or detect_emotion raised: the except clause logs,
\* the finally clause runs and the thread ends; running is left as it was.
CaptureFails(t) ==
    /\ pc[t] = "capture"
    /\ pc' = [pc EXCEPT ![t] = "done"]
    /\ UNCHANGED <<outside_loop, config, last_outcome, service, frustration_counter, locals, first_frame, obs, log>>

\* A frame with frame_count % FRAME_SKIP # 0: no detection, frame_count += 1, sleep.
SkipFrame(t) ==
    /\ pc[t] = "capture"
    /\ frame_count[t] % FRAME_SKIP # 0
    /\ frame_count' = [frame_count EXCEPT ![t] = (@ + 1) % FRAME_SKIP]
    /\ pc' = [pc EXCEPT ![t] = "while"]
    /\ UNCHANGED <<outside_loop, config, last_outcome, service, frustration_counter, emotion, loaded, first_frame, obs, log>>

\* A frame with frame_count % FRAME_SKIP = 0: emotion = self.detect_emotion(frame_bgr).
\* An IndexError raised by detect_emotion reaches the loop's except clause: it is
\* logged and the thread ends, `emotion` not assigned.  The history records that
\* the frame carried an unrecognized label.
Detect(t) ==
    /\ pc[t] = "capture"
    /\ frame_count[t] % FRAME_SKIP = 0
    /\ \E faces \in 0..1, confidence \in {CONFIDENCE_THRESHOLD - 1, CONFIDENCE_THRESHOLD},
          emotion_index \in 1..(Len(EMOTIONS) + 1) :
          LET label == DetectEmotion(faces, confidence, emotion_index) IN
              /\ emotion' = [emotion EXCEPT ![t] = IF label = IndexError THEN @ ELSE label]
              /\ pc' = [pc EXCEPT ![t] = IF label = IndexError THEN "done" ELSE "if_emotion"]
              /\ obs' = [obs EXCEPT ![t] =
                            IF Unrecognized(faces, confidence, emotion_index)
                            THEN [kind |-> "invalid", before |-> 0, fired |-> FALSE]
                            ELSE @]
    /\ UNCHANGED <<outside_loop, config, last_outcome, service, frustration_counter, frame_count, loaded, first_frame, log>>

\* A faulty BranchOf: a frame without a label takes the non-frustration branch.
BranchOfAbsentAsCalm(label) ==
    IF label \in FRUSTRATION_EMOTIONS THEN "inc_load" ELSE "decay_test"

\* `if emotion:` and `if emotion in FRUSTRATION_EMOTIONS:` pick the branch.  These
\* are the last reads of the local `emotion` before it is assigned again, so the
\* model clears it here.
BranchOf(label) ==
    IF label = None THEN "next"
    ELSE IF label \in FRUSTRATION_EMOTIONS THEN "inc_load"
    ELSE "decay_test"

Branch(t) ==
    /\ pc[t] = "if_emotion"
    /\ pc' = [pc EXCEPT ![t] = BranchOf(emotion[t])]
    /\ obs' = [obs EXCEPT ![t] = [kind |-> Kind(emotion[t]), before |-> frustration_counter,
                                  fired |-> FALSE]]
    /\ emotion' = [emotion EXCEPT ![t] = None]
    /\ UNCHANGED <<outside_loop, config, last_outcome, service, frustration_counter, frame_count, loaded, first_frame, log>>

\* `self.frustration_counter += 1` reads the field ...
IncLoad(t) ==
    /\ pc[t] = "inc_load"
    /\ loaded' = [loaded EXCEPT ![t] = frustration_counter]
    /\ pc' = [pc EXCEPT ![t] = "inc_store"]
    /\ UNCHANGED <<outside_loop, config, last_outcome, service, frustration_counter, frame_count, emotion, first_frame, obs, log>>

\* ... and writes it back, one more (the value read is a temporary, zeroed once used).
\* (A faulty Incremented: two more.)
IncrementedByTwo(c) == c + 2

Incremented(c) == c + 1

IncStore(t) ==
    /\ pc[t] = "inc_store"
    /\ Incremented(loaded[t]) <= MaxCounter
    /\ frustration_counter' = Incremented(loaded[t])
    /\ loaded' = [loaded EXCEPT ![t] = 0]
    /\ pc' = [pc EXCEPT ![t] = "threshold_test"]
    /\ UNCHANGED <<outside_loop, config, last_outcome, service, frame_count, emotion, first_frame, obs, log>>

\* `if self.frustration_counter >= FRUSTRATION_THRESHOLD:`
\* (A faulty ThresholdReached: `>` for `>=`.)
ThresholdExceeded(c) == c > FRUSTRATION_THRESHOLD

ThresholdReached(c) == c >= FRUSTRATION_THRESHOLD

ThresholdTest(t) ==
    /\ pc[t] = "threshold_test"
    /\ pc' = [pc EXCEPT ![t] = IF ThresholdReached(frustration_counter) THEN "trigger" ELSE "next"]
    /\ UNCHANGED <<outside_loop, config, last_outcome, service, frustration_counter, locals, first_frame, obs, log>>

\* _trigger_empathy: what the comfort action can end in.  With a callback: it
\* returns or raises.  Without: GET /trigger-empathy answers 200, answers another
\* status, or the request raises (refused, timed out after 5 s).
EmpathyOutcomes ==
    IF empathy_callback THEN {"returned", "raised"}
    ELSE {"200", "not200", "request_raised"}

\* The outcomes in which the comfort action failed.
EmpathyFailures == {"raised", "not200", "request_raised"}

\* Every outcome is logged inside _trigger_empathy, which then returns normally.
\* (A faulty AfterEmpathy: a failure propagates to the loop's except clause and
\* ends the thread.)
AfterEmpathyUncaught(outcome) == IF outcome \in EmpathyFailures THEN "done" ELSE "reset"

\* (Another faulty AfterEmpathy: a comfort action that failed is tried again.)
AfterEmpathyRetry(outcome) == IF outcome \in EmpathyFailures THEN "trigger" ELSE "reset"

AfterEmpathy(outcome) == "reset"

TriggerEmpathy(t) ==
    /\ pc[t] = "trigger"
    /\ \E outcome \in EmpathyOutcomes :
          /\ pc' = [pc EXCEPT ![t] = AfterEmpathy(outcome)]
          /\ last_outcome' = outcome
    /\ obs' = [obs EXCEPT ![t].fired = TRUE]
    /\ UNCHANGED <<outside_loop, config, service, frustration_counter, locals, first_frame, log>>

\* `self.frustration_counter = 0` after _trigger_empathy returned.
\* (A faulty ResetCounter: the assignment is missing.)
ResetCounterSkipped(t) ==
    /\ pc[t] = "reset"
    /\ pc' = [pc EXCEPT ![t] = "next"]
    /\ UNCHANGED <<outside_loop, config, last_outcome, service, frustration_counter, locals, first_frame, obs, log>>

ResetCounter(t) ==
    /\ pc[t] = "reset"
    /\ frustration_counter' = 0
    /\ pc' = [pc EXCEPT ![t] = "next"]
    /\ UNCHANGED <<outside_loop, config, last_outcome, service, locals, first_frame, obs, log>>

\* `if self.frustration_counter > 0:` in the non-frustration branch.
DecayTest(t) ==
    /\ pc[t] = "decay_test"
    /\ pc' = [pc EXCEPT ![t] = IF frustration_counter > 0 THEN "decay" ELSE "next"]
    /\ UNCHANGED <<outside_loop, config, last_outcome, service, frustration_counter, locals, first_frame, obs, log>>

\* `self.frustration_counter = max(0, self.frustration_counter - 2)`
\* (A faulty Decayed: no max(0, ...).)
DecayedUnclamped(c) == c - 2

\* (Another faulty Decayed: a calm frame takes off 1, as a frustrated one adds 1.)
DecayedByOne(c) == Max(0, c - 1)

Decayed(c) == Max(0, c - 2)

Decay(t) ==
    /\ pc[t] = "decay"
    /\ frustration_counter' = Decayed(frustration_counter)
    /\ pc' = [pc EXCEPT ![t] = "next"]
    /\ UNCHANGED <<outside_loop, config, last_outcome, service, locals, first_frame, obs, log>>

\* End of the iteration of a processed frame: frame_count += 1, sleep(0.1).
EndOfIteration(t) ==
    /\ pc[t] = "next"
    /\ frame_count' = [frame_count EXCEPT ![t] = (@ + 1) % FRAME_SKIP]
    /\ first_frame' = [first_frame EXCEPT ![t] = FALSE]
    /\ obs' = [obs EXCEPT ![t] = NoObs]
    /\ pc' = [pc EXCEPT ![t] = "while"]
    /\ UNCHANGED <<outside_loop, config, last_outcome, service, frustration_counter, emotion, loaded>>

NextFrame(t) == EndOfIteration(t) /\ UNCHANGED log

MonitorLoop(t) ==
    \/ LoopTest(t)
    \/ CaptureFails(t)
    \/ SkipFrame(t)
    \/ Detect(t)
    \/ Branch(t)
    \/ IncLoad(t)
    \/ IncStore(t)
    \/ ThresholdTest(t)
    \/ TriggerEmpathy(t)
    \/ ResetCounter(t)
    \/ DecayTest(t)
    \/ Decay(t)
    \/ NextFrame(t)

\* ------------------------------------------------------------ start, stop
\* Thread objects created so far.
Created == {t \in Threads : pc[t] # "none"}

\* What a call of start() or stop() leaves in `called`.
Call(on, op, camera, returned) == [on |-> on, op |-> op, camera |-> camera, returned |-> returned]

\* A faulty StartAlreadyRunning: `if self.running:` is missing, so start() on a
\* running service starts another thread and returns True.
StartAgain ==
    /\ caller = "idle"
    /\ running
    /\ Cardinality({t \in Threads : pc[t] # "none"}) < MaxThreads
    /\ LET t == Cardinality({u \in Threads : pc[u] # "none"}) + 1 IN
          /\ thread' = t
          /\ pc' = [pc EXCEPT ![t] = "while"]
          /\ frame_count' = [frame_count EXCEPT ![t] = 0]
    /\ picam2' = "started"
    /\ called' = Call("fer", "start", "True", "True")
    /\ UNCHANGED <<outside_fer, config, last_outcome, running, caller, frustration_counter, first_frame, emotion,
                   loaded, obs, log>>

\* start() on a running service: warns and returns False.
StartAlreadyRunning ==
    /\ caller = "idle"
    /\ running
    /\ called' = Call("fer", "start", None, "False")
    /\ UNCHANGED <<outside_fer, config, last_outcome, running, thread, picam2, caller, frustration_counter, pc, locals, first_frame, obs, log>>

\* A faulty StartCameraFails: `self.running = True` is assigned before the camera
\* is initialised.
StartCameraFailsRunning ==
    /\ caller = "idle"
    /\ ~running
    /\ running' = TRUE
    /\ picam2' \in {picam2, "created"}
    /\ called' = Call("fer", "start", "False", "False")
    /\ UNCHANGED <<outside_fer, config, last_outcome, thread, caller, frustration_counter, pc, locals, first_frame, obs, log>>

\* _init_camera() caught an exception and returned False: Picamera2() itself
\* raised (self.picam2 keeps its value) or configure()/start() raised on the new
\* object.  start() returns False.
StartCameraFails ==
    /\ caller = "idle"
    /\ ~running
    /\ picam2' \in {picam2, "created"}
    /\ called' = Call("fer", "start", "False", "False")
    /\ UNCHANGED <<outside_fer, config, last_outcome, running, thread, caller, frustration_counter, pc, locals, first_frame, obs, log>>

\* start() with the camera initialised: running = True, a new daemon thread
\* runs _monitor_loop (frame_count = 0), returns True.  frustration_counter is
\* not assigned.
StartThread ==
    /\ caller = "idle"
    /\ ~running
    /\ Cardinality(Created) < MaxThreads
    /\ LET t == Cardinality(Created) + 1 IN
          /\ thread' = t
          /\ pc' = [pc EXCEPT ![t] = "while"]
          /\ frame_count' = [frame_count EXCEPT ![t] = 0]
    /\ picam2' = "started"
    /\ running' = TRUE
    /\ called' = Call("fer", "start", "True", "True")
    /\ UNCHANGED <<outside_fer, config, last_outcome, caller, frustration_counter, first_frame, emotion,
                   loaded, obs, log>>

Start == StartAlreadyRunning \/ StartCameraFails \/ StartThread

\* stop() on a service that is not running: warns and returns.
StopNotRunning ==
    /\ caller = "idle"
    /\ ~running
    /\ called' = Call("fer", "stop", None, "None")
    /\ UNCHANGED <<outside_fer, config, last_outcome, running, thread, picam2, caller, frustration_counter, pc, locals, first_frame, obs, log>>

\* stop() on a running service: running = False, then self.thread.join(timeout=5).
StopBegin ==
    /\ caller = "idle"
    /\ running
    /\ running' = FALSE
    /\ caller' = "join"
    /\ called' = Call("fer", "stop", None, "pending")
    /\ UNCHANGED <<outside_fer, config, last_outcome, thread, picam2, frustration_counter, pc, locals, first_frame, obs, log>>

\* join(timeout=5) returns when the thread has ended, or after 5 seconds.  Every
\* step of the loop but the comfort action takes well under 5 seconds, so the
\* timeout finds the thread inside _trigger_empathy.
JoinReturns(t) == pc[t] = "done" \/ pc[t] = "trigger"

\* The join returned: the camera is stopped and stop() returns.
StopJoin ==
    /\ caller = "join"
    /\ JoinReturns(thread)
    /\ picam2' = "stopped"
    /\ caller' = "idle"
    /\ called' = [called EXCEPT !.returned = "None"]
    /\ UNCHANGED <<outside_fer, config, last_outcome, running, thread, frustration_counter, pc, locals,
                   first_frame, obs, log>>

Stop == StopNotRunning \/ StopBegin \/ StopJoin

\* ---------------------------------------------------------- specifications
Monitor == \E t \in Threads : MonitorLoop(t)

\* The service with its whole interface: start(), stop(), the monitor threads.
Next == Start \/ Stop \/ Monitor

Spec == Init /\ [][Next]_vars

\* One monitoring session: start() is called until it succeeds and the service
\* is never stopped, so the one monitor thread is what feeds observations to
\* the counter.  The session keeps the history of its first MaxObs observations
\* in `log`: no frame is classified once the log is full.
DetectLogged(t) == Len(log) < MaxObs /\ Detect(t)

NextFrameLogged(t) ==
    /\ EndOfIteration(t)
    /\ log' = Append(log, [kind |-> obs[t].kind, before |-> obs[t].before,
                           after |-> frustration_counter, fired |-> obs[t].fired])

MonitorLoopLogged(t) ==
    \/ LoopTest(t)
    \/ CaptureFails(t)
    \/ SkipFrame(t)
    \/ DetectLogged(t)
    \/ Branch(t)
    \/ IncLoad(t)
    \/ IncStore(t)
    \/ ThresholdTest(t)
    \/ TriggerEmpathy(t)
    \/ ResetCounter(t)
    \/ DecayTest(t)
    \/ Decay(t)
    \/ NextFrameLogged(t)

NextSession == StartCameraFails \/ StartThread \/ \E t \in Threads : MonitorLoopLogged(t)

SpecSession == Init /\ [][NextSession]_vars

\* ------------------------------------------------------------ the duck's face
\* The emotions DuckGUI has an image for (_load_duck_images gives every one of
\* them an image, a placeholder when the file cannot be loaded).
GuiEmotions == {"neutral", "concerned", "listening", "happy"}

\* A JSON array, as a request body can carry one: a Python list, which cannot
\* be hashed.
JsonArray == "[\"happy\"]"

\* `emotion in self.duck_images` raises TypeError for a value that cannot be a
\* dictionary key.
Unhashable(e) == e = JsonArray

\* DuckGUI.set_emotion: the value current_emotion takes (when the membership
\* test does not raise).
SetEmotion(e) == IF e \in GuiEmotions THEN e ELSE "neutral"

\* --------------------------------------------------------- button_listener.py
\* ButtonListener.start() on a running listener: warns and returns False.
ButtonStartAlreadyRunning ==
    /\ called.returned # "pending"
    /\ button_running
    /\ called' = Call("button", "start", None, "False")
    /\ UNCHANGED <<fer, gui, sentry, laptop, button>>

\* ButtonListener.start(): running = True, a new daemon thread enters
\* _monitor_loop, returns True.  (The model follows one button thread at a time:
\* a listener is started again once the thread before has ended.)
ButtonStart ==
    /\ called.returned # "pending"
    /\ ~button_running
    /\ bpc \in {"none", "done"}
    /\ button_thread < MaxThreads
    /\ button_running' = TRUE
    /\ button_thread' = button_thread + 1
    /\ bpc' = "wait"
    /\ called' = Call("button", "start", None, "True")
    /\ UNCHANGED <<fer, gui, sentry, laptop, button_callback, last_press_time, now, gpio, press>>

\* `while self.running:` read after wait_edge_events / wait_for_edge timed out
\* (1 second): with running False the loop, and the thread, end.
ButtonLoopExit ==
    /\ bpc = "wait"
    /\ ~button_running
    /\ bpc' = "done"
    /\ UNCHANGED <<fer, called, gui, sentry, laptop, button_callback, button_running, button_thread, gpio,
                   last_press_time, now, press>>

\* Waiting on a line request that stop() has released raises; the except clause
\* logs and the thread ends, running left as it was.
ButtonWaitFails ==
    /\ bpc = "wait"
    /\ gpio = "released"
    /\ bpc' = "done"
    /\ UNCHANGED <<fer, called, gui, sentry, laptop, button_callback, button_running, button_thread, gpio,
                   last_press_time, now, press>>

\* ButtonListener.stop() on a listener that is not running: warns and returns.
ButtonStopNotRunning ==
    /\ called.returned # "pending"
    /\ ~button_running
    /\ called' = Call("button", "stop", None, "None")
    /\ UNCHANGED <<fer, gui, sentry, laptop, button>>

\* ButtonListener.stop() on a running listener: running = False, then
\* self.thread.join(timeout=5).
ButtonStopBegin ==
    /\ called.returned # "pending"
    /\ button_running
    /\ button_running' = FALSE
    /\ called' = Call("button", "stop", None, "pending")
    /\ UNCHANGED <<fer, gui, sentry, laptop, button_callback, last_press_time, now, button_thread, gpio, bpc, press>>

\* The join returns when the thread has ended, or after 5 seconds, which find
\* the thread in the help request (timeout=30); then the GPIO line is released
\* and stop() returns.
ButtonStopJoin ==
    /\ called = Call("button", "stop", None, "pending")
    /\ bpc = "done" \/ (bpc = "act" /\ button_callback = None)
    /\ gpio' = "released"
    /\ called' = [called EXCEPT !.returned = "None"]
    /\ UNCHANGED <<fer, gui, sentry, laptop, button_callback, button_running, last_press_time, now, button_thread,
                   bpc, press>>

\* The clock moves on, whatever the button thread is doing.
Tick ==
    /\ now < MaxTime
    /\ now' = now + 1
    /\ UNCHANGED <<fer, called, gui, sentry, laptop, button_callback, button_running, button_thread, gpio, last_press_time, bpc, press>>

\* A faulty Debounced: `<=` for `<`.
DebouncedInclusive(current_time, last) == current_time - last <= DEBOUNCE_TIME

\* `if current_time - self.last_press_time < DEBOUNCE_TIME:`
Debounced(current_time, last) == current_time - last < DEBOUNCE_TIME

\* A rising edge wakes the thread, which calls _handle_button_press():
\* current_time = time.time(); a press within the debounce time returns at
\* once, any other sets last_press_time and goes on to the callback.  (`running`
\* is not read between the wait and the handling of the edges it returned.)
HandleButtonPress ==
    /\ bpc = "wait"
    /\ gpio = "requested"
    /\ LET current_time == now
           ignored == Debounced(current_time, last_press_time)
       IN  /\ last_press_time' = IF ignored THEN last_press_time ELSE current_time
           /\ bpc' = IF ignored THEN "wait" ELSE "act"
           /\ press' = [pressed |-> TRUE, at |-> current_time, accepted |-> ~ignored,
                        first |-> press.first /\ ~press.accepted,
                        since |-> IF press.accepted THEN press.at ELSE press.since,
                        before |-> last_press_time, acted |-> "none", help |-> "none"]
    /\ UNCHANGED <<fer, called, gui, sentry, laptop, button_callback, button_running, button_thread, gpio, now>>

\* `if self.button_callback:` with the callback main.py gives,
\* DebugDuck._button_callback: it sets the duck to "listening" when there is a
\* GUI, and returns.  _handle_button_press returns after the callback.
ButtonCallback ==
    /\ bpc = "act"
    /\ button_callback # None
    /\ current_emotion' = IF duck_gui THEN SetEmotion("listening") ELSE current_emotion
    /\ press' = [press EXCEPT !.acted = "callback"]
    /\ bpc' = "wait"
    /\ UNCHANGED <<fer, called, sentry, laptop, duck_gui, gui_loop, button_callback, button_running, button_thread, gpio, last_press_time, now>>

\* How requests.get(LAPTOP_CLIENT_URL, timeout=30) can end; each is logged.
HelpOutcomes == {"200", "not200", "ConnectionError", "Timeout", "Exception"}

\* The else branch, without a callback: _trigger_laptop_help() sends
\* GET /get-help to the laptop.
TriggerLaptopHelp ==
    /\ bpc = "act"
    /\ button_callback = None
    /\ \E outcome \in HelpOutcomes :
          press' = [press EXCEPT !.acted = "help", !.help = outcome]
    /\ bpc' = "wait"
    /\ UNCHANGED <<fer, called, gui, sentry, laptop, button_callback, button_running, button_thread, gpio, last_press_time, now>>

\* The button listener, its clock and the GUI its callback reaches.
NextButton == ButtonStart \/ Tick \/ HandleButtonPress \/ ButtonCallback \/ TriggerLaptopHelp

InitButton == FerIdle /\ ButtonInit /\ GuiInit /\ SentryIdle /\ LaptopIdle

SpecButton == InitButton /\ [][NextButton]_vars

\* ------------------------------------------------- duck_gui.py, start and stop
\* DuckGUI.start() on a running GUI: warns and returns False.
GuiStartAlreadyRunning ==
    /\ duck_gui
    /\ called.returned # "pending"
    /\ gui_running
    /\ called' = Call("gui", "start", None, "False")
    /\ UNCHANGED <<fer, button, gui, sentry, laptop>>

\* DuckGUI.start(): running = True, a new daemon thread enters _run_loop,
\* returns True.  (One GUI thread at a time, as for the button.)
GuiStart ==
    /\ duck_gui
    /\ called.returned # "pending"
    /\ ~gui_running
    /\ gpc \in {"none", "done"}
    /\ gui_thread < MaxThreads
    /\ gui_running' = TRUE
    /\ gui_thread' = gui_thread + 1
    /\ gpc' = "while"
    /\ called' = Call("gui", "start", None, "True")
    /\ UNCHANGED <<fer, button, sentry, laptop, duck_gui, current_emotion>>

\* `while self.running:` in _run_loop; leaving the loop runs pygame.quit().
GuiLoopTest ==
    /\ gpc = "while"
    /\ gpc' = IF gui_running THEN "draw" ELSE "done"
    /\ UNCHANGED <<fer, called, button, sentry, laptop, duck_gui, current_emotion, gui_running, gui_thread>>

\* One iteration: the events are handled (QUIT, q and Escape assign
\* running = False), the frame is drawn, the clock ticks.
GuiFrame ==
    /\ gpc = "draw"
    /\ \E quit \in BOOLEAN : gui_running' = (gui_running /\ ~quit)
    /\ gpc' = "while"
    /\ UNCHANGED <<fer, called, button, sentry, laptop, duck_gui, current_emotion, gui_thread>>

\* pygame raised in the iteration (the display is gone, or pygame.quit() was
\* run by an earlier thread): the except clause logs and the thread ends,
\* running left as it was.
GuiLoopFails ==
    /\ gpc = "draw"
    /\ gpc' = "done"
    /\ UNCHANGED <<fer, called, button, sentry, laptop, duck_gui, current_emotion, gui_running, gui_thread>>

\* DuckGUI.stop() on a GUI that is not running: warns and returns.
GuiStopNotRunning ==
    /\ duck_gui
    /\ called.returned # "pending"
    /\ ~gui_running
    /\ called' = Call("gui", "stop", None, "None")
    /\ UNCHANGED <<fer, button, gui, sentry, laptop>>

\* DuckGUI.stop() on a running GUI: running = False, then self.thread.join(timeout=5).
GuiStopBegin ==
    /\ duck_gui
    /\ called.returned # "pending"
    /\ gui_running
    /\ gui_running' = FALSE
    /\ called' = Call("gui", "stop", None, "pending")
    /\ UNCHANGED <<fer, button, sentry, laptop, duck_gui, current_emotion, gui_thread, gpc>>

\* The join returns when the thread has ended (an iteration lasts 1/30 second),
\* and stop() returns.
GuiStopJoin ==
    /\ called = Call("gui", "stop", None, "pending")
    /\ gpc = "done"
    /\ called' = [called EXCEPT !.returned = "None"]
    /\ UNCHANGED <<fer, button, gui, sentry, laptop>>

\* ------------------------------------------------ start() and stop(), all three
\* FERService with a comfort action that ends within the 5 seconds of the join:
\* stop() returns when the monitor thread has ended.
StopJoinEnded ==
    /\ caller = "join"
    /\ pc[thread] = "done"
    /\ StopJoin

\* The service being driven: the one the first call was made on.
Lone(on) == called.on \in {"none", on}

\* The three services share no field that start(), stop() or their threads read
\* or write, so each behaviour drives one of them.  (A thread takes steps only
\* once its service was started, so the calls alone need the guard.)
NextLifecycle ==
    \/ Lone("fer") /\ StartAlreadyRunning
    \/ Lone("fer") /\ StartCameraFails
    \/ Lone("fer") /\ StartThread
    \/ Lone("fer") /\ StopNotRunning
    \/ Lone("fer") /\ StopBegin
    \/ StopJoinEnded
    \/ Monitor
    \/ Lone("button") /\ ButtonStartAlreadyRunning
    \/ Lone("button") /\ ButtonStart
    \/ Lone("button") /\ ButtonStopNotRunning
    \/ Lone("button") /\ ButtonStopBegin
    \/ ButtonStopJoin
    \/ ButtonLoopExit
    \/ ButtonWaitFails
    \/ HandleButtonPress
    \/ ButtonCallback
    \/ TriggerLaptopHelp
    \/ Lone("gui") /\ GuiStartAlreadyRunning
    \/ Lone("gui") /\ GuiStart
    \/ Lone("gui") /\ GuiStopNotRunning
    \/ Lone("gui") /\ GuiStopBegin
    \/ GuiStopJoin
    \/ GuiLoopTest
    \/ GuiFrame
    \/ GuiLoopFails

InitLifecycle == FerIdle /\ ButtonInit /\ now = DEBOUNCE_TIME /\ GuiIdle /\ SentryIdle /\ LaptopIdle

SpecLifecycle == InitLifecycle /\ [][NextLifecycle]_vars

\* ---------------------------------------------------------- tts_service.py
\* str.strip() on the texts of the model.
Strip(text) == IF text = " " THEN "" ELSE text

\* Python's `not x` for a string or None.
Falsy(x) == x = None \/ x = ""

\* What speak() finds once it has a text: Piper and the voice model are there
\* and the pipeline exits 0 ("ok"), or one of its failures.
TtsEnv == {"ok", "no_piper", "no_model", "returncode", "TimeoutExpired", "Exception"}

\* tts_service.speak(text): True when the text was spoken; an empty or blank
\* text and every failure give False.  It raises nothing.
TtsSpeak(text, env) == ~Falsy(text) /\ ~Falsy(Strip(text)) /\ env = "ok"

\* ------------------------------------------------- llm_router.py (pi-sentry)
\* How requests.post to OpenRouter can end, and the content of a 200 answer.
LlmOutcomes == {"200", "not200", "Timeout", "Exception"}
LlmContents == {None, "", " ", "Quack! Bugs fear you."}

\* LLMRouter._call_openrouter: the content of a 200 answer, None otherwise.
CallOpenrouter(outcome, content) == IF outcome = "200" THEN content ELSE None

fallback_phrases ==
    << "You've got this. I believe in you!",
       "Hey, take a deep breath. Every bug has a solution!",
       "Sometimes the best debugging happens after a short break.",
       "You're smarter than this bug. Trust yourself!",
       "Quack! Remember, even the best coders hit walls sometimes." >>

\* A faulty GetComfortingPhrase: the answer is returned as it came.
GetComfortingPhraseUnchecked(response, choice) == response

\* LLMRouter.get_comforting_phrase: `if response:` returns it, else
\* random.choice(fallback_phrases).
GetComfortingPhrase(response, choice) ==
    IF ~Falsy(response) THEN response ELSE fallback_phrases[choice]

\* The phrase trigger_empathy uses when llm_router is None.
NoRouterPhrase == "Hey, take a breath. You've got this!"

\* ----------------------------------------------------------- sentry_server.py
\* The bodies a POST /speak request can carry: no JSON object at all, or an
\* object whose `text` is missing, null, empty, blank or a sentence.
Missing == "Missing"
SpeakTexts == {Missing, None, "", " ", "Check line 3."}

\* A request arrives and a free handler thread takes it.
Request(h) ==
    /\ handlers[h].hpc \in {"idle", "done"}
    /\ \/ handlers' = [handlers EXCEPT ![h] =
                           [IdleHandler EXCEPT !.route = "trigger-empathy", !.hpc = "begin"]]
       \/ \E json \in BOOLEAN, text \in SpeakTexts :
             /\ ~json => text = Missing
             /\ handlers' = [handlers EXCEPT ![h] =
                                [IdleHandler EXCEPT !.route = "speak", !.hpc = "begin",
                                                    !.json = json, !.text = text]]
    /\ UNCHANGED <<fer, called, button, laptop, gui, llm_router>>

\* The duck's face after duck_gui.set_emotion(e), guarded by `if duck_gui:`.
Face(e) == IF duck_gui THEN SetEmotion(e) ELSE current_emotion

\* What the guarded call adds to the history of a handler.
Faced(e) == IF duck_gui THEN <<e>> ELSE <<>>

\* trigger_empathy, steps 1 and 2: the phrase from the router, or the fixed one
\* without a router; then the duck looks concerned.
EmpathyBegin(h) ==
    /\ handlers[h].route = "trigger-empathy"
    /\ handlers[h].hpc = "begin"
    /\ \E outcome \in LlmOutcomes, content \in LlmContents, choice \in DOMAIN fallback_phrases :
          LET phrase == IF llm_router
                        THEN GetComfortingPhrase(CallOpenrouter(outcome, content), choice)
                        ELSE NoRouterPhrase
          IN  handlers' = [handlers EXCEPT ![h].text = phrase, ![h].hpc = "speak",
                                           ![h].did = @ \o Faced("concerned")]
    /\ current_emotion' = Face("concerned")
    /\ UNCHANGED <<fer, called, button, laptop, duck_gui, gui_loop, llm_router>>

\* Step 3: tts_service.speak(phrase); what it returns is dropped.
EmpathySpeak(h) ==
    /\ handlers[h].route = "trigger-empathy"
    /\ handlers[h].hpc = "speak"
    /\ \E env \in TtsEnv :
          handlers' = [handlers EXCEPT ![h].spoken = TtsSpeak(handlers[h].text, env),
                                       ![h].did = Append(@, "tts"),
                                       ![h].hpc = "revert"]
    /\ UNCHANGED <<fer, called, button, laptop, gui, llm_router>>

\* A faulty EmpathyRevert: the duck's face is reset only when the phrase was spoken.
EmpathyRevertIfSpoken(h) ==
    /\ handlers[h].route = "trigger-empathy"
    /\ handlers[h].hpc = "revert"
    /\ handlers' = [handlers EXCEPT ![h].status = 200, ![h].hpc = "done",
                                     ![h].did = IF handlers[h].spoken
                                                THEN @ \o Faced("neutral") ELSE @]
    /\ current_emotion' = IF handlers[h].spoken THEN Face("neutral") ELSE current_emotion
    /\ UNCHANGED <<fer, called, button, laptop, duck_gui, gui_loop, llm_router>>

\* Step 4: after a second the duck looks neutral again; the answer is 200 with
\* the phrase.  (Nothing in the try block raises, so the 500 of the except
\* clause is never answered.)
EmpathyRevert(h) ==
    /\ handlers[h].route = "trigger-empathy"
    /\ handlers[h].hpc = "revert"
    /\ handlers' = [handlers EXCEPT ![h].status = 200, ![h].hpc = "done",
                                     ![h].did = @ \o Faced("neutral")]
    /\ current_emotion' = Face("neutral")
    /\ UNCHANGED <<fer, called, button, laptop, duck_gui, gui_loop, llm_router>>

\* speak, up to the TTS call: request.get_json() raises or gives None when the
\* body is no JSON object (the except clause answers 500); data.get('text', '')
\* that is falsy answers 400; otherwise the duck listens.
SpeakBegin(h) ==
    /\ handlers[h].route = "speak"
    /\ handlers[h].hpc = "begin"
    /\ LET req == handlers[h]
           text == IF req.text = Missing THEN "" ELSE req.text
       IN  IF ~req.json THEN
               /\ handlers' = [handlers EXCEPT ![h].status = 500, ![h].hpc = "done"]
               /\ UNCHANGED current_emotion
           ELSE IF Falsy(text) THEN
               /\ handlers' = [handlers EXCEPT ![h].status = 400, ![h].hpc = "done"]
               /\ UNCHANGED current_emotion
           ELSE
               /\ handlers' = [handlers EXCEPT ![h].hpc = "speak",
                                                ![h].did = @ \o Faced("listening")]
               /\ current_emotion' = Face("listening")
    /\ UNCHANGED <<fer, called, button, laptop, duck_gui, gui_loop, llm_router>>

\* success = tts_service.speak(text)
SpeakSpeak(h) ==
    /\ handlers[h].route = "speak"
    /\ handlers[h].hpc = "speak"
    /\ \E env \in TtsEnv :
          LET success == TtsSpeak(handlers[h].text, env)
          IN  handlers' = [handlers EXCEPT ![h].success = success, ![h].spoken = success,
                                           ![h].did = Append(@, "tts"),
                                           ![h].hpc = "revert"]
    /\ UNCHANGED <<fer, called, button, laptop, gui, llm_router>>

\* A faulty SpeakStatus: 200 whatever speak() returned.
SpeakStatusAlways200(success) == 200

\* The status speak answers with after the TTS call.
SpeakStatus(success) == IF success THEN 200 ELSE 500

\* After half a second the duck looks neutral again; 200 or 500 ("TTS failed").
SpeakRevert(h) ==
    /\ handlers[h].route = "speak"
    /\ handlers[h].hpc = "revert"
    /\ handlers' = [handlers EXCEPT ![h].status = SpeakStatus(handlers[h].success),
                                     ![h].hpc = "done",
                                     ![h].did = @ \o Faced("neutral")]
    /\ current_emotion' = Face("neutral")
    /\ UNCHANGED <<fer, called, button, laptop, duck_gui, gui_loop, llm_router>>

Handle(h) ==
    \/ Request(h)
    \/ EmpathyBegin(h)
    \/ EmpathySpeak(h)
    \/ EmpathyRevert(h)
    \/ SpeakBegin(h)
    \/ SpeakSpeak(h)
    \/ SpeakRevert(h)

\* The Flask server of the Pi with the GUI it was given.
NextSentry == \E h \in Handlers : Handle(h)

InitSentry == FerIdle /\ ButtonIdle /\ GuiInit /\ SentryInit /\ LaptopIdle

SpecSentry == InitSentry /\ [][NextSentry]_vars

\* The `emotion` a POST /emotion request can carry: none, null, an emotion the
\* duck has a face for, a string it has none for, an array.
EmotionValues == {Missing, None, "neutral", "happy", "angry", JsonArray}

\* A request to /emotion arrives and a free handler thread takes it.
EmotionRequest(h) ==
    /\ handlers[h].hpc \in {"idle", "done"}
    /\ \E json \in BOOLEAN, e \in EmotionValues :
          /\ ~json => e = Missing
          /\ handlers' = [handlers EXCEPT ![h] =
                             [IdleHandler EXCEPT !.route = "emotion", !.hpc = "begin",
                                                 !.json = json, !.text = e]]
    /\ UNCHANGED <<fer, called, button, laptop, gui, llm_router>>

\* set_emotion (the endpoint): data.get('emotion', 'neutral') goes to
\* duck_gui.set_emotion and is answered 200; without a GUI the answer is 500.  A
\* body that is no JSON object, and a value on which DuckGUI.set_emotion raises,
\* reach the except clause: 500, the duck's face as it was.
EmotionSet(h) ==
    /\ handlers[h].route = "emotion"
    /\ handlers[h].hpc = "begin"
    /\ LET req == handlers[h]
           e == IF req.text = Missing THEN "neutral" ELSE req.text
       IN  IF req.json /\ duck_gui /\ ~Unhashable(e) THEN
               /\ current_emotion' = SetEmotion(e)
               /\ handlers' = [handlers EXCEPT ![h].status = 200, ![h].hpc = "done",
                                                ![h].did = Append(@, SetEmotion(e))]
           ELSE
               /\ handlers' = [handlers EXCEPT ![h].status = 500, ![h].hpc = "done"]
               /\ UNCHANGED current_emotion
    /\ UNCHANGED <<fer, called, button, laptop, duck_gui, gui_loop, llm_router>>

\* The Flask server of the Pi with the endpoint for setting the face by hand.
NextEmotion == \E h \in Handlers : Handle(h) \/ EmotionRequest(h) \/ EmotionSet(h)

SpecEmotion == InitSentry /\ [][NextEmotion]_vars

\* ------------------------------------------- laptop-client/client_server.py
\* What ocr_service.capture_and_ocr() returns: a message that starts with
\* "Could not capture screen" for every failure, "No code detected" for a
\* screen without text, the text otherwise.  It raises nothing and never
\* returns an empty string.
OcrOutcomes == {"no_tesseract", "grab_failed", "blank_screen", "text"}

CaptureAndOcr(outcome) ==
    CASE outcome = "no_tesseract" -> "Could not capture screen - Tesseract OCR not found"
      [] outcome = "grab_failed" -> "Could not capture screen"
      [] outcome = "blank_screen" -> "No code detected"
      [] outcome = "text" -> "print(my_list[i+1])"

\* code_text.startswith("Could not capture screen")
CouldNotCapture(code_text) ==
    code_text \in {"Could not capture screen - Tesseract OCR not found", "Could not capture screen"}

\* How the POST to PI_URL in send_to_pi can end; True is returned for 200 alone.
PiOutcomes == {"200", "not200", "ConnectionError", "Timeout", "Exception"}

SendToPi(outcome) == outcome = "200"

\* LLMRouter.get_coding_help (laptop-client/llm_router.py): the answer of
\* OpenRouter, or an apology when there is none.
GetCodingHelp(response) ==
    IF ~Falsy(response) THEN response
    ELSE "Sorry, I had trouble reading that code. Maybe try again?"

\* A request to /get-help arrives and a free handler thread takes it.
HelpRequest(h) ==
    /\ helps[h].hpc \in {"idle", "done"}
    /\ helps' = [helps EXCEPT ![h] = [IdleHelp EXCEPT !.hpc = "ocr"]]
    /\ UNCHANGED <<fer, called, button, gui, sentry, SPEAK_ON_LAPTOP, laptop_llm_router, tts_engine>>

\* A faulty GiveUp: `if not llm_router:` is missing.
GiveUpRouterUnchecked(code_text) ==
    IF Falsy(code_text) THEN
        [say |-> "I couldn't read your screen. Make sure there's code visible.", status |-> 500]
    ELSE IF CouldNotCapture(code_text) THEN
        [say |-> "I couldn't capture your screen. Something went wrong.", status |-> 500]
    ELSE IF code_text = "No code detected" THEN
        [say |-> "I don't see any code on your screen. Can you make sure your code editor is visible?",
         status |-> 400]
    ELSE [say |-> None, status |-> 0]

\* What get_help says, and answers, when it gives up before asking the LLM.
GiveUp(code_text) ==
    IF Falsy(code_text) THEN
        [say |-> "I couldn't read your screen. Make sure there's code visible.", status |-> 500]
    ELSE IF CouldNotCapture(code_text) THEN
        [say |-> "I couldn't capture your screen. Something went wrong.", status |-> 500]
    ELSE IF code_text = "No code detected" THEN
        [say |-> "I don't see any code on your screen. Can you make sure your code editor is visible?",
         status |-> 400]
    ELSE IF ~laptop_llm_router THEN
        [say |-> "My AI brain isn't working. Check the API key.", status |-> 500]
    ELSE [say |-> None, status |-> 0]

\* Step 1: the screenshot and its OCR; an OCR failure or a missing router is
\* told to the Pi with send_to_pi and answered 500 or 400.
HelpOcr(h) ==
    /\ helps[h].hpc = "ocr"
    /\ \E outcome \in OcrOutcomes :
          LET code_text == CaptureAndOcr(outcome)
              end == GiveUp(code_text)
          IN  IF end.status # 0
              THEN helps' = [helps EXCEPT ![h].code_text = code_text, ![h].status = end.status,
                                          ![h].sent = Append(@, end.say), ![h].hpc = "done",
                                          ![h].steps = Append(@, "ocr")]
              ELSE helps' = [helps EXCEPT ![h].code_text = code_text, ![h].hpc = "llm",
                                          ![h].steps = Append(@, "ocr")]
    /\ UNCHANGED <<fer, called, button, gui, sentry, SPEAK_ON_LAPTOP, laptop_llm_router, tts_engine>>

\* Step 2: answer = llm_router.get_coding_help(code_text)
HelpLlm(h) ==
    /\ helps[h].hpc = "llm"
    /\ \E outcome \in LlmOutcomes, content \in LlmContents :
          LET response == CallOpenrouter(outcome, content)
          IN  helps' = [helps EXCEPT ![h].answer = GetCodingHelp(response),
                                     ![h].llm_ok = ~Falsy(response),
                                     ![h].steps = Append(@, "llm"),
                                     ![h].hpc = "speak"]
    /\ UNCHANGED <<fer, called, button, gui, sentry, SPEAK_ON_LAPTOP, laptop_llm_router, tts_engine>>

\* speak_local(text): True when the engine said the text; False without an
\* engine or when the engine raised.
SpeakLocal(outcome) == tts_engine /\ outcome = "ok"

\* Step 3: with SPEAK_ON_LAPTOP the answer goes to speak_local, else to
\* send_to_pi; either way the request is answered 200.
HelpSpeak(h) ==
    /\ helps[h].hpc = "speak"
    /\ IF SPEAK_ON_LAPTOP
       THEN \E outcome \in {"ok", "raised"} :
               helps' = [helps EXCEPT ![h].local = IF SpeakLocal(outcome)
                                                   THEN Append(@, helps[h].answer) ELSE @,
                                      ![h].speak_status = "spoken_on_laptop",
                                      ![h].steps = Append(@, "speak"),
                                      ![h].status = 200, ![h].hpc = "done"]
       ELSE \E outcome \in PiOutcomes :
               helps' = [helps EXCEPT ![h].sent = Append(@, helps[h].answer),
                                      ![h].speak_status = IF SendToPi(outcome) THEN "sent_to_pi"
                                                          ELSE "failed",
                                      ![h].steps = Append(@, "speak"),
                                      ![h].status = 200, ![h].hpc = "done"]
    /\ UNCHANGED <<fer, called, button, gui, sentry, SPEAK_ON_LAPTOP, laptop_llm_router, tts_engine>>

GetHelp(h) == HelpRequest(h) \/ HelpOcr(h) \/ HelpLlm(h) \/ HelpSpeak(h)

\* The Flask server of the laptop.
NextLaptop == \E h \in Handlers : GetHelp(h)

InitLaptop == FerIdle /\ ButtonIdle /\ GuiIdle /\ SentryIdle /\ LaptopInit

SpecLaptop == InitLaptop /\ [][NextLaptop]_vars

\* ------------------------------------------------- the counter as a function
\* What one processed frame does to the counter when no other thread touches it
\* (lines 187-204 run start to end): the new counter and whether it fired.
Observe(c, kind) ==
    IF kind = "frust" THEN
        IF ThresholdReached(Incremented(c))
        THEN [counter |-> 0, fired |-> TRUE]
        ELSE [counter |-> Incremented(c), fired |-> FALSE]
    ELSE IF kind = "calm" THEN
        [counter |-> IF c > 0 THEN Decayed(c) ELSE c, fired |-> FALSE]
    ELSE [counter |-> c, fired |-> FALSE]

\* The fired flags of a sequence of observation kinds fed to Observe from counter c.
RECURSIVE Replay(_, _)
Replay(c, kinds) ==
    IF kinds = <<>> THEN <<>>
    ELSE LET r == Observe(c, Head(kinds))
         IN  <<r.fired>> \o Replay(r.counter, Tail(kinds))

\* ------------------------------------------------------------------ claims
T == FRUSTRATION_THRESHOLD

\* log[i..j] are all frustration-set observations.
AllFrust(i, j) == \A m \in i..j : log[m].kind = "frust"

\* The number of frustration-set observations among log[i..j].
FrustCount(i, j) == Cardinality({m \in i..j : log[m].kind = "frust"})

\* C1: with a threshold of at least 1, a run of consecutive frustration-set
\* observations that starts with the counter at 0 fires on its threshold-th
\* observation and on none of the threshold-1 before it.
C1_FiresExactlyOnThreshold ==
    T >= 1 =>
        \A i \in 1..Len(log) : \A k \in 1..T :
            (log[i].before = 0 /\ i + k - 1 <= Len(log) /\ AllFrust(i, i + k - 1))
                => (log[i + k - 1].fired <=> k = T)

\* A threshold of 3 and a recorded run of 3 frustration observations from 0.
C1_Witness ==
    /\ T = 3
    /\ Len(log) >= 4
    /\ log[2].before = 0 /\ AllFrust(2, 4) /\ log[4].fired

\* C2: the observation that fires leaves the counter at 0, and none of the
\* threshold-1 frustration-set observations right after a fire fires.
C2_FireResetsCounter ==
    T >= 1 =>
        \A i \in 1..Len(log) :
            log[i].fired =>
                /\ log[i].after = 0
                /\ \A k \in 1..(T - 1) :
                      (i + k <= Len(log) /\ AllFrust(i + 1, i + k)) => ~log[i + k].fired

\* A fire followed by threshold-1 = 2 frustration observations, then the next fire.
C2_Witness ==
    /\ T = 3
    /\ Len(log) = 6
    /\ AllFrust(1, 6)
    /\ log[3].fired /\ ~log[4].fired /\ ~log[5].fired /\ log[6].fired

\* The observations of the log that carry a label.
Labelled == SelectSeq(log, LAMBDA e : e.kind # "absent")

\* C3: an observation without a label leaves the counter as it found it and
\* does not fire, and the labelled observations fire exactly as they do when
\* the same labelled observations are processed, from 0, with nothing between them.
C3_AbsenceIsNeutral ==
    /\ \A i \in 1..Len(log) :
          log[i].kind = "absent" => (log[i].after = log[i].before /\ ~log[i].fired)
    /\ [i \in 1..Len(Labelled) |-> Labelled[i].fired]
          = Replay(0, [i \in 1..Len(Labelled) |-> Labelled[i].kind])

\* The second example of the specification: angry, None, angry, angry with a
\* threshold of 3 counts 1, 1, 2 and fires on the fourth observation.
C3_Witness ==
    /\ T = 3
    /\ Len(log) = 4
    /\ log[1].kind = "frust" /\ log[1].after = 1
    /\ log[2].kind = "absent" /\ log[2].before = 1
    /\ log[3].kind = "frust" /\ log[3].after = 2
    /\ log[4].kind = "frust" /\ log[4].fired

\* C4: the counter is never negative, and a calm observation that finds the
\* counter at 0 leaves it at 0 and does not fire.
C4_DecayClampsAtZero ==
    /\ frustration_counter >= 0
    /\ \A i \in 1..Len(log) :
          (log[i].kind = "calm" /\ log[i].before = 0) => (log[i].after = 0 /\ ~log[i].fired)

\* A calm observation that clamps (1 - 2 gives 0), then calm observations at 0.
C4_Witness ==
    /\ Len(log) >= 3
    /\ \E i \in 1..(Len(log) - 2) :
          /\ log[i].kind = "calm" /\ log[i].before = 1 /\ log[i].after = 0
          /\ log[i + 1].kind = "calm" /\ log[i + 1].before = 0
          /\ log[i + 2].kind = "calm" /\ log[i + 2].before = 0

\* C5: with a threshold of at least 1 the counter is within [0, threshold], and
\* below the threshold whenever no observation is being processed.
C5_CounterWithinThreshold ==
    T >= 1 =>
        /\ frustration_counter \in 0..T
        /\ Observing = {} => frustration_counter < T
        /\ \A i \in 1..Len(log) : log[i].after < T

\* The counter stands at a threshold of 3 while the firing observation is processed.
C5_Witness ==
    /\ T = 3
    /\ frustration_counter = T
    /\ \E t \in Threads : pc[t] = "trigger"

\* The fires recorded in the log.
Fires == {i \in 1..Len(log) : log[i].fired}

\* C6: with a threshold of at least 1, at least `threshold` frustration-set
\* observations are processed up to the first fire and between one fire and the
\* next, so no accumulation fires twice.
C6_OneFirePerThreshold ==
    T >= 1 =>
        \A j \in Fires :
            LET earlier == {i \in Fires : i < j}
                from == IF earlier = {} THEN 1
                        ELSE (CHOOSE i \in earlier : \A h \in earlier : h <= i) + 1
            IN  FrustCount(from, j) >= T

\* Two fires with a calm observation among the frustration observations between them.
C6_Witness ==
    /\ T = 2
    /\ Cardinality(Fires) = 2
    /\ \E i \in 1..Len(log) : log[i].kind = "calm" /\ log[i].before > 0

\* C7: fire and reset are one atomic step: with a threshold of at least 1 the
\* counter is below the threshold in every state in which the comfort action
\* is running.
C7_ResetAtomicWithFire ==
    T >= 1 =>
        \A t \in Threads : pc[t] = "trigger" => frustration_counter < T

\* C8: a comfort action that failed (the callback raised, the request raised or
\* was answered with another status than 200) leaves the monitor thread in its
\* loop, about to reset the counter or with the counter reset to 0.
C8_ComfortFailureHarmless ==
    \A t \in Threads :
        (obs[t].fired /\ last_outcome \in EmpathyFailures) =>
            /\ pc[t] \in {"reset", "next"}
            /\ pc[t] = "next" => frustration_counter = 0

\* After a failed comfort action the loop has gone on to count a further frame.
C8_Witness ==
    /\ last_outcome \in EmpathyFailures
    /\ \E t \in Threads :
          /\ pc[t] = "next"
          /\ obs[t].kind = "frust" /\ ~obs[t].fired
          /\ obs[t].before = 0 /\ frustration_counter = 1

\* C9: at most one monitor thread is alive at any time.
C9_SingleWriter == Cardinality(Alive) <= 1

\* C10: the first frame a monitor thread processes finds the counter at 0
\* (stated for a thread that is the only live monitor thread).
C10_FreshSession ==
    \A t \in Threads :
        (first_frame[t] /\ obs[t].kind # "none" /\ Alive = {t}) => obs[t].before = 0

\* C11: a detector with a threshold of 0 or less is refused at construction, so
\* with such a threshold no monitor thread ever processes a frame (and none fires).
C11_NonPositiveThresholdRefused ==
    T <= 0 => \A t \in Threads : pc[t] \in {"none", "done", "while", "capture"} /\ ~obs[t].fired

\* The counter the session's observations have left: that of the last recorded
\* observation, 0 when none is recorded.
CounterRecorded == IF log = <<>> THEN 0 ELSE log[Len(log)].after

SpecObserve(c, kind, threshold, decayStep) ==
    IF kind = "absent" THEN [counter |-> c, fired |-> FALSE]
    ELSE LET stepped == IF kind = "frust" THEN c + 1
                        ELSE IF c - decayStep >= 0 THEN c - decayStep ELSE 0
         IN  IF stepped >= threshold
             THEN [counter |-> 0, fired |-> TRUE]
             ELSE [counter |-> stepped, fired |-> FALSE]

\* The results of the specification's observe() over a sequence of kinds, from count c.
RECURSIVE SpecRun(_, _, _, _)
SpecRun(c, kinds, threshold, decayStep) ==
    IF kinds = <<>> THEN <<>>
    ELSE LET r == SpecObserve(c, Head(kinds), threshold, decayStep)
         IN  <<r>> \o SpecRun(r.counter, Tail(kinds), threshold, decayStep)

C13_Debounce ==
    press.pressed =>
        /\ ~press.accepted <=> (~press.first /\ press.at - press.since < DEBOUNCE_TIME)
        /\ ~press.accepted =>
              (last_press_time = press.before /\ press.acted = "none" /\ bpc = "wait")
        /\ (press.accepted /\ ~press.first) => press.at - press.since >= DEBOUNCE_TIME
        /\ press.accepted => last_press_time = press.at

\* A press is ignored one tick after an accepted one, with one ignored press
\* between them already; the accepted press ran the callback.
C13_Witness ==
    /\ press.pressed /\ ~press.accepted
    /\ press.at = press.since + 1
    /\ press.before = press.since
    /\ button_callback # None
    /\ current_emotion = "listening"

\* C14: with the callback main.py gives the listener (DebugDuck.start_services),
\* an accepted press whose handling has ended has sent the help request.
C14_AcceptedPressRequestsHelp ==
    (button_callback = "_button_callback" /\ press.accepted /\ bpc = "wait")
        => press.acted = "help"

\* The handler threads serving, or having served, /trigger-empathy and /speak.
Comforting == {h \in Handlers : handlers[h].route = "trigger-empathy"}
Speaking == {h \in Handlers : handlers[h].route = "speak"}

\* C16: the phrase of a comfort action is never None and never "", from the
\* moment it is handed to tts_service.speak on; without a router it is the
\* fixed phrase of trigger_empathy.
C16_PhraseAlwaysThere ==
    \A h \in Comforting :
        handlers[h].hpc \in {"speak", "revert", "done"} =>
            /\ ~Falsy(handlers[h].text)
            /\ ~llm_router => handlers[h].text = NoRouterPhrase

\* The text-generation call failed and a fallback phrase was spoken.
C16_Witness ==
    /\ llm_router
    /\ \E h \in Comforting :
          /\ handlers[h].hpc = "done"
          /\ handlers[h].text = fallback_phrases[3]
          /\ handlers[h].spoken

\* C17: a /trigger-empathy handler that made the duck look concerned has, when
\* it ends, spoken (or tried to) and then made the duck look neutral; and the
\* duck looks concerned only while such a handler is still on its way there.
C17_ConcernedReverts ==
    /\ \A h \in Comforting :
          (handlers[h].hpc = "done" /\ handlers[h].did # <<>> /\ Head(handlers[h].did) = "concerned")
              => handlers[h].did = <<"concerned", "tts", "neutral">>
    /\ current_emotion = "concerned" =>
          \E h \in Comforting : handlers[h].hpc \in {"speak", "revert"}

\* Speech failed, and the duck that looked concerned looks neutral again.
C17_Witness ==
    /\ current_emotion = "neutral"
    /\ \A h \in Handlers : handlers[h].hpc \in {"idle", "done"}
    /\ \E h \in Comforting :
          /\ handlers[h].did = <<"concerned", "tts", "neutral">>
          /\ ~handlers[h].spoken

\* C18: an endpoint answers 200 only when its phrase or text was spoken.
C18_SuccessOnlyWhenSpoken ==
    \A h \in Handlers :
        (handlers[h].hpc = "done" /\ handlers[h].status = 200) => handlers[h].spoken

Texts(seq) == {seq[i] : i \in DOMAIN seq}

\* C15: a /get-help request that succeeded (the OCR gave text, OpenRouter gave
\* the answer, the request was answered 200) has posted the answer to the Pi's
\* /speak endpoint.
C15_AnswerSentToPi ==
    \A h \in Handlers :
        (helps[h].hpc = "done" /\ helps[h].status = 200 /\ helps[h].llm_ok)
            => helps[h].answer \in Texts(helps[h].sent)

\* log[i..j] are all calm observations (a label outside the frustration set).
AllCalm(i, j) == \A m \in i..j : log[m].kind = "calm"

\* log[i..] holds k frustration-set observations that start with the counter at
\* 0 and stay below the threshold, and right after them m calm observations.
Erasing(i, k, m) ==
    /\ k < T
    /\ i + k + m - 1 <= Len(log)
    /\ log[i].before = 0
    /\ AllFrust(i, i + k - 1)
    /\ AllCalm(i + k, i + k + m - 1)

C22_ComfortOncePerFire ==
    /\ \A t \in Threads :
          /\ pc[t] = "trigger" =>
                (obs[t].kind = "frust" /\ ~obs[t].fired /\ frustration_counter >= T)
          /\ obs[t].fired => (obs[t].kind = "frust" /\ pc[t] \in {"reset", "next"})
    /\ \A i \in 1..Len(log) :
          log[i].fired <=> (log[i].kind = "frust" /\ log[i].before + 1 >= T)

\* Threshold 2: an absent, a calm and a below-threshold observation without the
\* comfort action, then the one observation that fired, its comfort action failed.
C22_Witness ==
    /\ T = 2
    /\ Len(log) = 4
    /\ log[1].kind = "absent" /\ log[2].kind = "calm"
    /\ log[3].kind = "frust" /\ ~log[3].fired
    /\ log[4].kind = "frust" /\ log[4].fired
    /\ last_outcome \in EmpathyFailures

\* The error phrases get_help posts to the Pi when it gives up.
ErrorPhrases ==
    { "I couldn't read your screen. Make sure there's code visible.",
      "I couldn't capture your screen. Something went wrong.",
      "I don't see any code on your screen. Can you make sure your code editor is visible?",
      "My AI brain isn't working. Check the API key." }

\* C30: the steps of a /get-help request run in the order OCR, LLM, speak; the
\* LLM is called only after the OCR gave usable text and only with a router;
\* a request that failed before the LLM step has sent exactly one error phrase
\* to the Pi, has not called the LLM, and is answered 400 when the OCR said
\* "No code detected" and 500 otherwise.
C30_HelpStepsInOrder ==
    \A h \in Handlers :
        LET req == helps[h] IN
            /\ req.steps \in {<<>>, <<"ocr">>, <<"ocr", "llm">>, <<"ocr", "llm", "speak">>}
            /\ req.hpc = "done" => req.steps \in {<<"ocr">>, <<"ocr", "llm", "speak">>}
            /\ Len(req.steps) >= 2 =>
                  /\ laptop_llm_router
                  /\ ~Falsy(req.code_text)
                  /\ ~CouldNotCapture(req.code_text)
                  /\ req.code_text # "No code detected"
            /\ (req.hpc = "done" /\ req.steps = <<"ocr">>) =>
                  /\ Len(req.sent) = 1 /\ req.sent[1] \in ErrorPhrases
                  /\ req.answer = None /\ ~req.llm_ok
                  /\ req.local = <<>>
                  /\ req.status = IF req.code_text = "No code detected" THEN 400 ELSE 500

\* Without a router: one request whose screen showed no code answered 400, one
\* whose OCR gave text answered 500, each after one error phrase.
C30_Witness ==
    /\ ~laptop_llm_router
    /\ \E g, h \in Handlers :
          /\ helps[g].hpc = "done" /\ helps[g].status = 400
          /\ helps[g].code_text = "No code detected" /\ Len(helps[g].sent) = 1
          /\ helps[h].hpc = "done" /\ helps[h].status = 500
          /\ helps[h].code_text = "print(my_list[i+1])"
          /\ helps[h].sent = <<"My AI brain isn't working. Check the API key.">>

\* The handler threads serving, or having served, /emotion.
Setting == {h \in Handlers : handlers[h].route = "emotion"}

\* C28: the duck's face is always one of neutral, concerned, listening and
\* happy, and a /emotion request that carries any other value has, with a GUI,
\* set it to "neutral".
C28_EmotionAlwaysKnown ==
    /\ current_emotion \in GuiEmotions
    /\ \A h \in Setting :
          (handlers[h].hpc = "done" /\ handlers[h].json /\ duck_gui
           /\ handlers[h].text \notin GuiEmotions \union {Missing})
              => handlers[h].did = <<"neutral">>

\* The handler threads inside their call of tts_service.speak.
InSpeakingStep == {h \in Handlers : handlers[h].hpc = "speak"}

\* C23: at most one /trigger-empathy or /speak handler is in its speaking step
\* at any time, and (with a GUI) the duck does not look neutral while a handler
\* is still speaking, that is, no handler has reset the face under another.
C23_OneSpeakerAtATime ==
    /\ Cardinality(InSpeakingStep) <= 1
    /\ (duck_gui /\ InSpeakingStep # {}) => current_emotion # "neutral"

\* C24: whenever running is True (and no stop() is under way), the thread
\* start() created is alive: an exception in the loop does not leave the
\* service running without a monitor thread.
C24_RunningMeansAlive ==
    (running /\ caller = "idle") => thread \in Alive

\* A step in which start() or stop() was called on FERService, on ButtonListener,
\* on DuckGUI: the call is recorded, or a field only calls assign has changed.
FerCalled(op) ==
    /\ called'.on = "fer" /\ called'.op = op
    /\ called' # called \/ service' # service

ButtonCalled(op) ==
    /\ called'.on = "button" /\ called'.op = op
    /\ called' # called \/ <<button_thread, gpio>>' # <<button_thread, gpio>>

GuiCalled(op) ==
    /\ called'.on = "gui" /\ called'.op = op
    /\ called' # called \/ gui_thread' # gui_thread

\* C26: on FERService, ButtonListener and DuckGUI, start() on a running service
\* returns False, creates no thread and changes no field; stop() on a service
\* that is not running returns, changing no field and touching neither the
\* camera nor the GPIO line.
C26_StartStopIdempotent ==
    [][ /\ (FerCalled("start") /\ running) =>
              /\ called'.returned = "False"
              /\ UNCHANGED <<service, pc, frustration_counter, locals>>
        /\ (FerCalled("stop") /\ ~running /\ caller = "idle") =>
              /\ called'.returned = "None"
              /\ UNCHANGED <<service, pc, frustration_counter, locals>>
        /\ (ButtonCalled("start") /\ button_running) =>
              /\ called'.returned = "False"
              /\ UNCHANGED <<button_running, button_thread, gpio, bpc, last_press_time>>
        /\ (ButtonCalled("stop") /\ ~button_running /\ called.returned # "pending") =>
              /\ called'.returned = "None"
              /\ UNCHANGED <<button_running, button_thread, gpio, bpc, last_press_time>>
        /\ (GuiCalled("start") /\ gui_running) =>
              /\ called'.returned = "False"
              /\ UNCHANGED <<gui_running, gui_thread, gpc, current_emotion>>
        /\ (GuiCalled("stop") /\ ~gui_running /\ called.returned # "pending") =>
              /\ called'.returned = "None"
              /\ UNCHANGED <<gui_running, gui_thread, gpc, current_emotion>>
      ]_vars

\* start() was refused on a running FERService: its one thread goes on with the
\* frame it was processing, the counter at 2.
C26_Witness ==
    /\ called = Call("fer", "start", None, "False")
    /\ running /\ thread = 1 /\ Alive = {1}
    /\ picam2 = "started"
    /\ frustration_counter = 2

\* A step of a call of FERService.start() in which _init_camera returned False.
CameraFailed ==
    /\ called'.on = "fer" /\ called'.op = "start" /\ called'.camera = "False"
    /\ called' # called \/ service' # service

\* C27: when the camera cannot be initialised, start() returns False, running
\* stays False, no thread is created or moved, the counter is unchanged, and
\* the service is left as a later start() needs it (not running, no call under
\* way).
C27_CameraFailureRefusesStart ==
    [][ CameraFailed =>
            /\ called'.returned = "False"
            /\ ~running /\ ~running'
            /\ caller' = "idle"
            /\ thread' = thread
            /\ pc' = pc
            /\ frustration_counter' = frustration_counter
      ]_vars

\* A service that was stopped with the counter at 2 is started again, the new
\* Picamera2 object cannot be configured: start() has returned False, the
\* counter is still 2 and no second thread exists.
C27_Witness ==
    /\ called = Call("fer", "start", "False", "False")
    /\ ~running
    /\ picam2 = "created"
    /\ frustration_counter = 2
    /\ thread = 1 /\ pc[1] = "done" /\ pc[2] = "none"

\* The positions of a monitor thread that has begun an iteration and not yet
\* reached the comfort action or the end of the iteration.
InIteration == {"capture", "if_emotion", "inc_load", "inc_store", "threshold_test",
                "decay_test", "decay"}

\* C25: a monitor thread on which stop() was called ends: it may finish the
\* comfort action it was in, and then leaves the loop at its next test of
\* `running`; it begins no further iteration.  (A thread object other than
\* self.thread is one that stop() was called on: start() creates a thread only
\* when running is False, which after the first start only stop() makes it.)
C25_StoppedLoopEnds ==
    \A t \in Threads : (pc[t] # "none" /\ t # thread) => pc[t] \notin InIteration

\* Nothing of a help flow is under way: the press has been handled, no /get-help
\* request is being served by the laptop and no request by the Pi.
HelpFlowOver ==
    /\ bpc = "wait"
    /\ \A h \in Handlers : handlers[h].hpc \in {"idle", "done"} /\ helps[h].hpc \in {"idle", "done"}

\* C29: in the assembled application (the callback of main.py, a GUI), once
\* the help flow of an accepted press is over the duck no longer looks
\* "listening".
C29_ListeningReverts ==
    (button_callback = "_button_callback" /\ duck_gui /\ press.accepted /\ HelpFlowOver)
        => current_emotion # "listening"
====
